---------------------------- MODULE Spec2Model ----------------------------
(***************************************************************************)
(* Bike rebalancing decision pipeline: strategy evaluation (stock          *)
(* simulation), Pareto frontier extraction, weekly visit planning and      *)
(* truck routing.  Each stage of the pipeline is modelled from its source  *)
(* and has its own specification; the variables of the stages a            *)
(* specification does not run stay at Idle.                                *)
(***************************************************************************)
EXTENDS Integers, Sequences, FiniteSets, TLC

VARIABLES
    \* ---- frontiers.py : run_frontiers
    fr_pc,          \* "load" | "returned_none" | "returned_frame"
    n_futur_day,    \* remaining horizon of the evaluated table
    bad_kind,       \* evaluated_strategies.csv: the values of its rejected rows
    good_cells,     \* evaluated_strategies.csv: the (station, sign, idx) of its good rows
    df,             \* run_frontiers' local frame after filtering
    INF, SUP,       \* partial orders returned by build_partial_orders
    frontiers,      \* the frame run_frontiers returns: group -> frontier row
    \* ---- evaluation.py : _simulate, one trajectory of the batch
    sim_pc,         \* "day" | "step" | "done"
    cap,            \* capacity of the station
    sim_sign,       \* regulation magnitude of the batch (reg_candidates entry)
    has_hist,       \* stock_hist is not None
    hist_d0,        \* stock_hist[:, d, 0] of the current day
    reset_d0,       \* reg_hist[:, d, 0] of the current day
    d_idx, t_idx,   \* loop indices d and t of _simulate
    prev,           \* stock carried over from the previous day
    x_cur,          \* x: the value last stored in cumul
    ref,            \* historical value the last stored value was stabilized against
    reset_mask,     \* reset flag the last stored value was stabilized with
    sign_ref,       \* tracked drift direction
    mask,           \* feasibility flags of the days simulated so far
    start,          \* the initial stock passed to _simulate
    zero_input,     \* every day_reg and demand entry read so far was 0
    day_reg,        \* day_reg[:, d] of the days simulated so far
    \* ---- evaluation.py : one call of stabilize, one trajectory
    st_pc,          \* "call" | "returned", or "parse" | "parsed" for a parser
    st_args,        \* arguments of the call: of stabilize, or of a pattern parser
    st_ret,         \* <<x, sign_ref>> returned, or the parser's [error, value]
    \* ---- optim/planvisit.py : Weekplan
    wp_pc,          \* "prepared" | "built" | "IndexError" | "incumbent" | "optimal" | "NameError"
    wp_mini_sample, \* run_optimization's mini_sample flag of this preparation
    horizon,        \* pattern length of the frontier table read (n_futur_day of its evaluation)
    n_days,         \* len(dims["N"])
    strategies,     \* params[sens]["strategies"]: per station its down and up patterns
    Nin,            \* params[sens]["Nin"]
    dinj,           \* dinj[sens][s][n], in units of 1/Den
    score_s,        \* score_s[sens][s], in units of 1/Den
    csv_rows,       \* rows of the file written by to_csv
    rt_pc,          \* position in TruckRoutes.solve
    rt_type,        \* self.type of the nodes 1..S (the depot is node 0)
    rt_N,           \* number of planning days of the routing model
    rt_Nin,         \* params[sens]["Nin"] of the inherited day limit
    din,            \* din[n][i] of the solution held, in units of 1/Den
    x_vars,         \* the keys (i, j) at which x[m][i, j, n] is a variable
    x_sel,          \* x_sel[n]: the arcs <<i, j>> with x[i, j, n] = 1
    \* ---- optim/planrout.py : finition, finition_paires
    day_sols,       \* the feasible assignments of one day of the model
    arc_bounds,     \* arc_bounds[n]: bounds of the arc variables of day n
    x_before,       \* the incumbent read when the current round froze the days
    n_focus,        \* focus day of the next per-day round
    it,             \* rounds of finition_paires done
    \* ---- main.py : run_pipeline
    pl_pc,              \* the stage about to be called | "success" | "exited"
    process_last_week,  \* config["process_last_week"]
    n_truck_models,     \* config["params"]["n_truck_models"]
    frontiers_csv,      \* frontiers_strategies.csv: "absent" | "stale" | "fresh"
    stage_log,          \* the stages called so far and whether each raised
    frontiers_ret,      \* what run_frontiers did
    opt,                \* what run_optimization did
    exit_status         \* exit status of the process, once it has ended

simVars == <<sim_pc, cap, sim_sign, has_hist, hist_d0, reset_d0, d_idx, t_idx,
             prev, x_cur, ref, reset_mask, sign_ref, mask, start, zero_input, day_reg>>

stVars == <<st_pc, st_args, st_ret>>

plVars == <<pl_pc, process_last_week, n_truck_models, frontiers_csv, stage_log,
            frontiers_ret, opt, exit_status>>

wpVars == <<wp_pc, wp_mini_sample, horizon, n_days, strategies, Nin, dinj, score_s, csv_rows>>

rtVars == <<rt_pc, rt_type, rt_N, rt_Nin, x_vars, din, x_sel>>

lnVars == <<day_sols, arc_bounds, x_before, n_focus, it>>

frVars == <<fr_pc, n_futur_day, bad_kind, good_cells, df, INF, SUP, frontiers>>

vars == <<frVars, simVars, wpVars, rtVars, stVars, plVars, lnVars>>

Idle == "idle"
None == "None"

\* a stage that a specification does not run
FrIdle ==
    /\ fr_pc = Idle /\ n_futur_day = Idle /\ bad_kind = Idle /\ good_cells = Idle
    /\ df = Idle /\ INF = Idle /\ SUP = Idle /\ frontiers = Idle

SimIdle ==
    /\ sim_pc = Idle /\ cap = Idle /\ sim_sign = Idle /\ has_hist = Idle
    /\ hist_d0 = Idle /\ reset_d0 = Idle /\ d_idx = Idle /\ t_idx = Idle
    /\ prev = Idle /\ x_cur = Idle /\ ref = Idle /\ reset_mask = Idle
    /\ sign_ref = Idle /\ mask = Idle
    /\ start = Idle /\ zero_input = Idle /\ day_reg = Idle

WpIdle ==
    /\ wp_pc = Idle /\ wp_mini_sample = Idle /\ horizon = Idle
    /\ n_days = Idle /\ strategies = Idle /\ Nin = Idle
    /\ dinj = Idle /\ score_s = Idle /\ csv_rows = Idle

StIdle == st_pc = Idle /\ st_args = Idle /\ st_ret = Idle

PlIdle ==
    /\ pl_pc = Idle /\ process_last_week = Idle /\ n_truck_models = Idle
    /\ frontiers_csv = Idle /\ stage_log = Idle /\ frontiers_ret = Idle
    /\ opt = Idle /\ exit_status = Idle

RtIdle ==
    /\ rt_pc = Idle /\ rt_type = Idle /\ rt_N = Idle /\ rt_Nin = Idle
    /\ x_vars = Idle /\ din = Idle /\ x_sel = Idle

LnIdle ==
    /\ day_sols = Idle /\ arc_bounds = Idle /\ x_before = Idle
    /\ n_focus = Idle /\ it = Idle

\* the variables of the other stages
notFr == <<simVars, wpVars, rtVars, stVars, plVars, lnVars>>
notSim == <<frVars, wpVars, rtVars, stVars, plVars, lnVars>>
notWp == <<frVars, simVars, rtVars, stVars, plVars, lnVars>>
notRt == <<frVars, simVars, wpVars, stVars, plVars, lnVars>>
notSt == <<frVars, simVars, wpVars, rtVars, plVars, lnVars>>
notPl == <<frVars, simVars, wpVars, rtVars, stVars, lnVars>>
notLn == <<frVars, simVars, wpVars, stVars, plVars>>

-----------------------------------------------------------------------------
(* Generic helpers                                                         *)

RECURSIVE Pow2(_)
Pow2(n) == IF n = 0 THEN 1 ELSE 2 * Pow2(n - 1)

Min2(a, b) == IF a <= b THEN a ELSE b

-----------------------------------------------------------------------------
(* evaluation.py : pattern enumeration and its text form                   *)

\* int_to_binary_matrix: bit k of the row is (idx & (1 << (n_bits-1-k))) > 0,
\* most significant bit first.
IntToBinaryRow(idx, n_bits) ==
    [k \in 1..n_bits |-> IF ((idx \div Pow2(n_bits - k)) % 2) > 0 THEN 1 ELSE 0]

\* str() of one bit
StrOfBit(b) == IF b = 0 THEN "0" ELSE "1"

\* "[" + "".join(map(str, b)) + "]" ; a string is a sequence of characters
StrategyBits(b) == <<"[">> \o [k \in 1..Len(b) |-> StrOfBit(b[k])] \o <<"]">>

-----------------------------------------------------------------------------
(* frontiers.py                                                            *)

\* thresholds critere_vide / critere_plein, in percent
c_vide == 22
c_plein == 66
idx_null_strat == 0

\* regulation magnitudes of the two signs (reg_candidates)
SignVide == 15
SignPlein == -15
Signs == {SignVide, SignPlein}

\* str.strip("[]"): drop leading and trailing characters that are [ or ]
RECURSIVE LStrip(_)
LStrip(s) ==
    IF s # <<>> /\ Head(s) \in {"[", "]"} THEN LStrip(Tail(s)) ELSE s

RECURSIVE RStrip(_)
RStrip(s) ==
    IF s # <<>> /\ s[Len(s)] \in {"[", "]"}
    THEN RStrip(SubSeq(s, 1, Len(s) - 1)) ELSE s

Strip(s) == RStrip(LStrip(s))

\* int() of one character
IntOfChar(c) ==
    CASE c = "0" -> 0 [] c = "1" -> 1 [] c = "2" -> 2 [] c = "3" -> 3
      [] c = "4" -> 4 [] c = "5" -> 5 [] c = "6" -> 6 [] c = "7" -> 7
      [] c = "8" -> 8 [] c = "9" -> 9

\* parse_bits: '[0101]' -> (0,1,0,1)
parse_bits(s) == LET t == Strip(s) IN [k \in 1..Len(t) |-> IntOfChar(t[k])]

\* variants of the comparison: one position suffices / strictly less everywhere
AllLeqZip_Any(a, b) == \E k \in 1..Min2(Len(a), Len(b)) : a[k] <= b[k]

AllLeqZip_Strict(a, b) == \A k \in 1..Min2(Len(a), Len(b)) : a[k] < b[k]

\* all(x <= y for x, y in zip(a, b)): zip stops at the shorter sequence
AllLeqZip(a, b) == \A k \in 1..Min2(Len(a), Len(b)) : a[k] <= b[k]

\* build_partial_orders: INF[s] / SUP[s] over the distinct strings strats
build_INF(strats) ==
    [s \in strats |->
        {t \in strats : t # s /\ AllLeqZip(parse_bits(t), parse_bits(s))}]

build_SUP(strats) ==
    [s \in strats |->
        {t \in strats : t # s /\ AllLeqZip(parse_bits(s), parse_bits(t))}]

\* df["good_strat"]
good_strat(r) ==
    r.applyable /\ r.max_ratio >= c_vide /\ r.min_ratio <= c_plein

\* variant: no station is set aside
autopass_None(rows) == {}

\* stations whose null strategy is good
autopass(rows) ==
    {r.station : r \in {q \in rows : q.strategy_idx = idx_null_strat /\ good_strat(q)}}

\* rows kept after steps 3 and 4 of run_frontiers
kept_rows(rows) ==
    LET ap == autopass(rows)
    IN  {r \in rows : r.station \notin ap /\ good_strat(r)}

\* compute_frontiers_group: low = [s for s in goods if not (INF[s] & goods)]
frontiere_bas(goods, inf) == {s \in goods : inf[s] \cap goods = {}}

\* compute_frontiers_group: high = [s for s in goods if not (SUP[s] & goods)]
frontiere_haut(goods, sup) == {s \in goods : sup[s] \cap goods = {}}

\* variant of the grouping: by station only
GroupGoods_AnySign(rows, g) ==
    {r.strategy_bits : r \in {q \in rows : q.station = g[1]}}

\* goods = set(group["strategy_bits"]) for a group of df.groupby(["station", "sign"])
GroupGoods(rows, g) ==
    {r.strategy_bits : r \in {q \in rows : q.station = g[1] /\ q.sign = g[2]}}

Groups(rows) == {<<r.station, r.sign>> : r \in rows}

-----------------------------------------------------------------------------
(* Frontier stage as a state machine                                       *)

Horizons == 1..3
MaxGood == 3
Stations == {1, 2}

\* ratio values, in percent, of the rows the evaluation writes
GoodKind == [applyable |-> TRUE, min_ratio |-> 50, max_ratio |-> 50]
BadKinds == {[applyable |-> FALSE, min_ratio |-> 50, max_ratio |-> 50],
             [applyable |-> TRUE, min_ratio |-> 10, max_ratio |-> 21],
             [applyable |-> TRUE, min_ratio |-> 67, max_ratio |-> 90]}

\* the strategy_bits column for horizon h: one string per strategy index
StrategyBitsColumn ==
    [h \in Horizons |->
       [idx \in 0..(Pow2(h) - 1) |-> StrategyBits(IntToBinaryRow(idx, h))]]

\* one record of run_evaluation's df_res
EvalRow(st, sg, idx, h, kind) ==
    [station |-> st, strategy_idx |-> idx,
     strategy_bits |-> StrategyBitsColumn[h][idx],
     sign |-> sg, applyable |-> kind.applyable,
     min_ratio |-> kind.min_ratio, max_ratio |-> kind.max_ratio]

\* run_evaluation emits 2^h rows for every sign and station; the table is held
\* as the cells whose row is good and the values of all the other rows
EvalTable(h, good, kind) ==
    {EvalRow(c[1], c[2], c[3], h, IF c \in good THEN GoodKind ELSE kind) :
        c \in Stations \X Signs \X (0..(Pow2(h) - 1))}

evaluated == EvalTable(n_futur_day, good_cells, bad_kind)

FrInit ==
    /\ SimIdle /\ WpIdle /\ RtIdle /\ StIdle /\ PlIdle /\ LnIdle
    /\ fr_pc = "load"
    /\ n_futur_day \in Horizons
    /\ bad_kind \in BadKinds
    /\ good_cells = {}
    /\ df = {} /\ INF = <<>> /\ SUP = <<>> /\ frontiers = <<>>

\* the evaluation found pattern idx of (st, sg) feasible and within thresholds
FrGoodRecord ==
    /\ fr_pc = "load"
    /\ Cardinality(good_cells) < MaxGood
    /\ \E c \in (Stations \X Signs \X (0..(Pow2(n_futur_day) - 1))) \ good_cells :
          good_cells' = good_cells \cup {c}
    /\ UNCHANGED <<fr_pc, n_futur_day, bad_kind, df, INF, SUP, frontiers>>
    /\ UNCHANGED notFr

\* run_frontiers, from reading the table to the returned frame
run_frontiers ==
    /\ fr_pc = "load"
    /\ LET rows == kept_rows(evaluated)
           all_strats == {r.strategy_bits : r \in rows}
           inf == build_INF(all_strats)
           sup == build_SUP(all_strats)
       IN  /\ df' = rows
           /\ IF rows = {}
              THEN /\ fr_pc' = "returned_none"
                   /\ UNCHANGED <<INF, SUP, frontiers>>
              ELSE /\ fr_pc' = "returned_frame"
                   /\ INF' = inf
                   /\ SUP' = sup
                   /\ frontiers' =
                        [g \in Groups(rows) |->
                           [frontiere_bas |-> frontiere_bas(GroupGoods(rows, g), inf),
                            frontiere_haut |-> frontiere_haut(GroupGoods(rows, g), sup)]]
    /\ UNCHANGED <<n_futur_day, bad_kind, good_cells>>
    /\ UNCHANGED notFr

FrNext == FrGoodRecord \/ run_frontiers

-----------------------------------------------------------------------------
(* evaluation.py : stabilize and _simulate, for one trajectory of the batch *)
(* (every array operation of the two functions is elementwise).  Stock,     *)
(* demand and history values are integers.                                  *)

band == 3
apply_tol == 4

Abs(v) == IF v < 0 THEN -v ELSE v

\* np.sign
Sign(v) == IF v > 0 THEN 1 ELSE IF v < 0 THEN -1 ELSE 0

\* variant of np.clip onto the open interval
Clip_Open(v, lo, hi) == IF v <= lo THEN lo + 1 ELSE IF v >= hi THEN hi - 1 ELSE v

\* np.clip(v, lo, hi)
Clip(v, lo, hi) == IF v < lo THEN lo ELSE IF v > hi THEN hi ELSE v

\* variant of stabilize without step 2
stabilize_NoViolationStep(x0, r, s0, reset) ==
    LET inside == (Abs(x0 - r) <= band) \/ (s0 = 0)
        x1 == IF inside THEN r ELSE x0
        s1 == IF inside THEN 0 ELSE s0
    IN  IF reset THEN <<x0, Sign(x0 - r)>> ELSE <<x1, s1>>

\* stabilize(x, ref, sign_ref, reset_mask, band): returns (x, sign_ref)
stabilize(x0, r, s0, reset) ==
    LET y == x0
        delta == x0 - r
        \* 1) neutral band
        inside == (Abs(delta) <= band) \/ (s0 = 0)
        x1 == IF inside THEN r ELSE x0
        s1 == IF inside THEN 0 ELSE s0
        \* 2) violation of the invariant
        active == s1 # 0
        bad == active /\ (Sign(delta) # s1)
        x2 == IF bad THEN r ELSE x1
        s2 == IF bad THEN 0 ELSE s1
        \* 3) reset on regulation
        x3 == IF reset THEN y ELSE x2
        s3 == IF reset THEN Sign(x3 - r) ELSE s2
    IN  <<x3, s3>>

-----------------------------------------------------------------------------
(* One call of stabilize, on the arguments _simulate can pass: x is a       *)
(* clipped stock, ref a historical stock, sign_ref a value of np.sign       *)

StabilizeStocks == 0..23

StInit ==
    /\ FrIdle /\ SimIdle /\ WpIdle /\ RtIdle /\ PlIdle /\ LnIdle
    /\ st_pc = "call"
    /\ st_args \in [x : StabilizeStocks, ref : StabilizeStocks,
                     sign_ref : {-1, 0, 1}, reset_mask : BOOLEAN]
    /\ st_ret = <<>>

stabilize_call ==
    /\ st_pc = "call"
    /\ st_ret' = stabilize(st_args.x, st_args.ref, st_args.sign_ref, st_args.reset_mask)
    /\ st_pc' = "returned"
    /\ UNCHANGED st_args
    /\ UNCHANGED notSt

StNext == stabilize_call

-----------------------------------------------------------------------------
(* _simulate as a state machine                                            *)

N_day == 2
N_step == 2
Capacities == {20}
StockValues == {0, 17, 20, 23}
DemandValues == {-8, 0, 3}

SimInit ==
    /\ FrIdle /\ WpIdle /\ RtIdle /\ StIdle /\ PlIdle /\ LnIdle
    /\ sim_pc = "day"
    /\ cap \in Capacities
    /\ sim_sign \in Signs
    /\ has_hist \in BOOLEAN
    /\ prev \in StockValues                         \* prev = start.copy()
    /\ hist_d0 \in StockValues
    /\ reset_d0 \in BOOLEAN
    /\ sign_ref = IF has_hist THEN Sign(prev - hist_d0) ELSE None
    /\ d_idx = 0 /\ t_idx = 0
    /\ x_cur = prev /\ ref = hist_d0 /\ reset_mask = reset_d0
    /\ mask = <<>>
    /\ start = prev
    /\ zero_input = TRUE
    /\ day_reg = <<>>

\* lines 50-59: the candidate regulation of day d
SimDayRegulation ==
    /\ sim_pc = "day"
    /\ \E bit \in {0, 1} :
         LET reg == bit * sim_sign
             test == prev + reg
             clipped == Clip(test, 0, cap)
             reset == (reg # 0) \/ reset_d0
             st == IF has_hist THEN stabilize(clipped, hist_d0, sign_ref, reset)
                   ELSE <<clipped, sign_ref>>
         IN  /\ mask' = Append(mask, (test >= -apply_tol) /\ (test <= cap + apply_tol))
             /\ x_cur' = st[1]
             /\ sign_ref' = st[2]
             /\ ref' = hist_d0
             /\ reset_mask' = reset
             /\ zero_input' = (zero_input /\ reg = 0)
             /\ day_reg' = Append(day_reg, reg)
    /\ t_idx' = 0
    /\ sim_pc' = "step"
    /\ UNCHANGED <<cap, sim_sign, has_hist, hist_d0, reset_d0, d_idx, prev, start>>
    /\ UNCHANGED notSim

\* lines 61-67: demand step t_idx of day d; after the last step prev = x and the next
\* day's first history entries are read
SimStep ==
    /\ sim_pc = "step"
    /\ \E dem \in DemandValues, h \in StockValues, rh \in BOOLEAN :
         LET hist == IF t_idx = 0 THEN hist_d0 ELSE h
             reset == IF t_idx = 0 THEN reset_d0 ELSE rh
             moved == Clip(x_cur + dem, 0, cap)
             st == IF has_hist THEN stabilize(moved, hist, sign_ref, reset)
                   ELSE <<moved, sign_ref>>
         IN  /\ (t_idx = 0 => h = hist_d0 /\ rh = reset_d0)
             /\ (~has_hist => h = hist_d0 /\ rh = reset_d0)   \* no history is read
             /\ x_cur' = st[1]
             /\ sign_ref' = st[2]
             /\ ref' = hist
             /\ reset_mask' = reset
             /\ zero_input' = (zero_input /\ dem = 0)
             /\ IF t_idx + 1 < N_step
                THEN /\ t_idx' = t_idx + 1
                     /\ UNCHANGED <<sim_pc, d_idx, prev, hist_d0, reset_d0>>
                ELSE /\ t_idx' = 0
                     /\ d_idx' = d_idx + 1
                     /\ prev' = st[1]
                     /\ IF d_idx + 1 < N_day
                        THEN /\ sim_pc' = "day"
                             /\ hist_d0' \in IF has_hist THEN StockValues ELSE {hist_d0}
                             /\ reset_d0' \in IF has_hist THEN BOOLEAN ELSE {reset_d0}
                        ELSE /\ sim_pc' = "done"
                             /\ UNCHANGED <<hist_d0, reset_d0>>
    /\ UNCHANGED <<cap, sim_sign, has_hist, mask, start, day_reg>>
    /\ UNCHANGED notSim

\* run_evaluation: "applyable": mask.all(axis=1)
applyable_Last == mask # <<>> => mask[Len(mask)]
applyable == \A d \in 1..Len(mask) : mask[d]

SimNext == SimDayRegulation \/ SimStep

-----------------------------------------------------------------------------
(* optimization.py : the parameters handed to the solvers                  *)

Sens == {"vide", "plein"}

\* zip(["vide", "plein"], [15, -15])
SignOfSens(sens) == IF sens = "vide" THEN SignVide ELSE SignPlein

\* seq[:k]
Take(seq, k) == SubSeq(seq, 1, Min2(k, Len(seq)))

\* parse_frontiers_logic: list(map(int, x.strip("[]")))[:limit] for x in raw_list;
\* the list is held as the set of its patterns
parse_frontiers_logic(raw_list, mini_sample) ==
    LET limit == IF mini_sample THEN 2 ELSE 7
    IN  {Take(parse_bits(x), limit) : x \in raw_list}

\* prepare_optimization_params: n_days is the length of the first low pattern of
\* the first deficit station, or the default when there is none
prepare_n_days(strat, mini_sample) ==
    IF Len(strat["vide"]) > 0 /\ strat["vide"][1].down # {}
    THEN Len(CHOOSE q \in strat["vide"][1].down : TRUE)
    ELSE IF mini_sample THEN 2 ELSE 7

-----------------------------------------------------------------------------
(* optim/planvisit.py : Weekplan.  Continuous variables take the values     *)
(* k/Den, k in 0..Den, and are held as k.                                   *)

Den == 2
score_importance == 20
inj_importance == 5

\* variant: the visit variables are continuous whatever build_obj is
decision_mode_Continuous(build_obj) == 0..Den

\* decision_mode = GRB.BINARY if build_obj else GRB.CONTINUOUS, with lb=0, ub=1
decision_mode(build_obj) == IF build_obj THEN {0, Den} ELSE 0..Den

RECURSIVE SumOver(_, _)
SumOver(f, D) ==
    IF D = {} THEN 0
    ELSE LET e == CHOOSE e \in D : TRUE IN f[e] + SumOver(f, D \ {e})

\* strat_inj[n] for n in N raises IndexError on a pattern shorter than N
BuildRaises(strat, nd) ==
    \E sens \in Sens : \E k \in 1..Len(strat[sens]) :
        \E q \in strat[sens][k].down \cup strat[sens][k].up : Len(q) < nd

\* day_limit_inj: sum over the stations of one sens, for every day
DayLimit(dj, nd, nin) ==
    \A sens \in Sens : \A n \in 1..nd :
        SumOver([k \in 1..Len(dj[sens]) |-> dj[sens][k][n]], 1..Len(dj[sens])) <= nin * Den

\* active_strat_down and down_succes of one station: some activation of its low
\* patterns satisfies them
DownFeasible(down, dj_s, sc, nd) ==
    \E a \in [down -> 0..Den] :
        /\ \A q \in down : \A n \in 1..nd : dj_s[n] >= q[n] * a[q]
        /\ sc <= SumOver(a, down)

\* active_strat_up and up_succes of one station
UpFeasible(up, dj_s, sc, nd) ==
    \E a \in [up -> 0..Den] :
        /\ \A q \in up : \A n \in 1..nd : dj_s[n] <= q[n] * Den + (Den - a[q])
        /\ sc <= SumOver(a, up)

\* all constraints of _build_constraints, for both sens
WpFeasible(strat, nd, nin, dj, sc) ==
    /\ DayLimit(dj, nd, nin)
    /\ \A sens \in Sens : \A k \in 1..Len(strat[sens]) :
          /\ DownFeasible(strat[sens][k].down, dj[sens][k], sc[sens][k], nd)
          /\ UpFeasible(strat[sens][k].up, dj[sens][k], sc[sens][k], nd)

\* np.linspace(1, 1.1, len)[k] = LinNum(k, len) / LinDen(len)
LinNum(k, len) == IF len <= 1 THEN 1 ELSE 10 * (len - 1) + k
LinDen(len) == IF len <= 1 THEN 1 ELSE 10 * (len - 1)

\* _build_objective of one sens, times Den * LinDen(len(S)) * LinDen(len(N))
ObjSens(dj_x, sc_x, nd) ==
    LET ns == Len(dj_x)
        gain == [k \in 1..ns |->
                   sc_x[k] * LinNum(k - 1, ns) * score_importance * LinDen(nd)]
        cost == [k \in 1..ns |->
                   SumOver([n \in 1..nd |->
                              dj_x[k][n] * LinNum(k - 1, ns) * LinNum(n - 1, nd)
                                * inj_importance], 1..nd)]
    IN  SumOver(gain, 1..ns) - SumOver(cost, 1..ns)

\* the objective of the model, on the common denominator of the two sens
Objective(dj, sc, nd) ==
    ObjSens(dj["vide"], sc["vide"], nd) * LinDen(Len(dj["plein"]))
      + ObjSens(dj["plein"], sc["plein"], nd) * LinDen(Len(dj["vide"]))

\* the assignments of dinj and score_s the solver searches
WpCandidates(strat, nd, build_obj) ==
    [dinj : [vide : [1..Len(strat["vide"]) -> [1..nd -> decision_mode(build_obj)]],
             plein : [1..Len(strat["plein"]) -> [1..nd -> decision_mode(build_obj)]]],
     score_s : [vide : [1..Len(strat["vide"]) -> 0..Den],
                plein : [1..Len(strat["plein"]) -> 0..Den]]]

WpFeasibleSet(strat, nd, nin, build_obj) ==
    {c \in WpCandidates(strat, nd, build_obj) :
        WpFeasible(strat, nd, nin, c.dinj, c.score_s)}

\* to_csv: the list rows holds one row per station, thresholded at 0.5, the
\* deficit stations first; pd.DataFrame(rows) then raises NameError, the
\* module never importing pandas, and no file is written
to_csv(dj, sc, nd) ==
    LET row(sens, k) ==
          [station |-> <<sens, k>>, sign |-> SignOfSens(sens),
           strategie |-> StrategyBits([n \in 1..nd |->
                             IF 2 * dj[sens][k][n] > Den THEN 1 ELSE 0]),
           succes |-> 2 * sc[sens][k] > Den]
    IN  [rows |-> [k \in 1..Len(dj["vide"]) |-> row("vide", k)]
                    \o [k \in 1..Len(dj["plein"]) |-> row("plein", k)],
         error |-> "NameError",
         written |-> FALSE]

-----------------------------------------------------------------------------
(* Visit planning stage as a state machine: prepare_optimization_params,    *)
(* Weekplan(dims, params), solve, to_csv                                    *)

MaxGoodWp == 3
nin_limit_default == 50
NinValues == {1, nin_limit_default}

\* the frontier tables handed to the stage: remaining horizon, the sign of each
\* station of the table, and the least number of visit days of its good patterns
WpTables ==
    {[h |-> 1, signs |-> <<SignVide>>, visits |-> 1],
     [h |-> 2, signs |-> <<SignVide>>, visits |-> 1],
     [h |-> 3, signs |-> <<SignVide>>, visits |-> 1],
     [h |-> 3, signs |-> <<SignPlein>>, visits |-> 1],
     [h |-> 4, signs |-> <<SignVide>>, visits |-> 3],
     [h |-> 2, signs |-> <<SignVide, SignVide>>, visits |-> 1],
     [h |-> 2, signs |-> <<SignVide, SignPlein>>, visits |-> 1]}

\* the preparations explored: every table in normal mode, the one-station
\* tables in mini-sample mode as well
WpShapes ==
    {[h |-> t.h, signs |-> t.signs, visits |-> t.visits, mini |-> FALSE] : t \in WpTables}
      \cup {[h |-> t.h, signs |-> t.signs, visits |-> t.visits, mini |-> TRUE] :
               t \in {u \in WpTables : Len(u.signs) = 1}}

\* good sets of a station of the table: the all-zero pattern is never good
\* there; the patterns have at least `visits` visit days
GoodSets(h, visits) ==
    LET days(i) == {k \in 1..h : IntToBinaryRow(i, h)[k] = 1}
    IN  {G \in SUBSET {i \in 1..(Pow2(h) - 1) : Cardinality(days(i)) >= visits} :
            G # {} /\ Cardinality(G) <= MaxGoodWp}

\* frontiers_strategies.csv as run_frontiers writes it for the good sets
FrontierTable(h, signs, goods) ==
    LET strs == [k \in 1..Len(signs) |-> {StrategyBits(IntToBinaryRow(i, h)) : i \in goods[k]}]
        all_strats == UNION {strs[k] : k \in 1..Len(signs)}
        inf == build_INF(all_strats)
        sup == build_SUP(all_strats)
    IN  [k \in 1..Len(signs) |->
           [station |-> k, sign |-> signs[k],
            frontiere_bas |-> frontiere_bas(strs[k], inf),
            frontiere_haut |-> frontiere_haut(strs[k], sup)]]

\* frontiers[frontiers["sign"] == sign_val], in the order of the table
RECURSIVE RowsOfSign(_, _)
RowsOfSign(table, sign_val) ==
    IF table = <<>> THEN <<>>
    ELSE IF Head(table).sign = sign_val
         THEN <<Head(table)>> \o RowsOfSign(Tail(table), sign_val)
         ELSE RowsOfSign(Tail(table), sign_val)

\* params[sens]["strategies"], one record per station of the sens
prepare_strategies(table, mini_sample) ==
    [sens \in Sens |->
       LET sub == RowsOfSign(table, SignOfSens(sens))
       IN  [k \in 1..Len(sub) |->
              [down |-> parse_frontiers_logic(sub[k].frontiere_bas, mini_sample),
               up |-> parse_frontiers_logic(sub[k].frontiere_haut, mini_sample)]]]

\* run_optimization builds Weekplan(dims, params, verbose=False): build_obj=True
wp_build_obj == TRUE

WpSolved == wp_pc \in {"incumbent", "optimal", "NameError"}

WpInit ==
    /\ FrIdle /\ SimIdle /\ RtIdle /\ StIdle /\ PlIdle /\ LnIdle
    /\ wp_pc = "prepared"
    /\ Nin \in NinValues
    /\ \E sh \in WpShapes : \E goods \in [1..Len(sh.signs) -> GoodSets(sh.h, sh.visits)] :
          /\ wp_mini_sample = sh.mini
          /\ horizon = sh.h
          /\ strategies = prepare_strategies(FrontierTable(sh.h, sh.signs, goods), wp_mini_sample)
          /\ n_days = prepare_n_days(strategies, wp_mini_sample)
    /\ dinj = <<>>
    /\ score_s = <<>>
    /\ csv_rows = {}

\* Weekplan.__init__: the model is built or the constructor raises
WpBuild ==
    /\ wp_pc = "prepared"
    /\ wp_pc' = IF BuildRaises(strategies, n_days) THEN "IndexError" ELSE "built"
    /\ UNCHANGED <<wp_mini_sample, horizon, n_days, strategies, Nin, dinj, score_s, csv_rows>>
    /\ UNCHANGED notWp

\* the solver finds a feasible solution
WpIncumbent ==
    /\ wp_pc = "built"
    /\ \E c \in WpFeasibleSet(strategies, n_days, Nin, wp_build_obj) :
          /\ dinj' = c.dinj
          /\ score_s' = c.score_s
    /\ wp_pc' = "incumbent"
    /\ UNCHANGED <<wp_mini_sample, horizon, n_days, strategies, Nin, csv_rows>>
    /\ UNCHANGED notWp

\* Weekplan.solve: optimize() ends on a solution of maximal objective
WpOptimize ==
    /\ wp_pc = "built"
    /\ LET feas == WpFeasibleSet(strategies, n_days, Nin, wp_build_obj)
           val == [c \in feas |-> Objective(c.dinj, c.score_s, n_days)]
       IN  \E c \in feas :
             /\ \A o \in feas : val[o] <= val[c]
             /\ dinj' = c.dinj
             /\ score_s' = c.score_s
    /\ wp_pc' = "optimal"
    /\ UNCHANGED <<wp_mini_sample, horizon, n_days, strategies, Nin, csv_rows>>
    /\ UNCHANGED notWp

\* Weekplan.to_csv
WpToCsv ==
    /\ wp_pc = "optimal"
    /\ LET out == to_csv(dinj, score_s, n_days)
       IN  /\ csv_rows' = IF out.written THEN {out.rows[k] : k \in DOMAIN out.rows}
                                         ELSE csv_rows
           /\ wp_pc' = out.error
    /\ UNCHANGED <<wp_mini_sample, horizon, n_days, strategies, Nin, dinj, score_s>>
    /\ UNCHANGED notWp

WpNext == WpBuild \/ WpIncumbent \/ WpOptimize \/ WpToCsv

-----------------------------------------------------------------------------
(* optim/planrout.py : TruckRoutes.  One day of the model is a record       *)
(* [din, x]: din[i] in units of 1/Den, x the set of arcs <<i, j>> selected. *)
(* With at most topk[0] + 1 stations of each type every arc has a variable. *)

DEPOT == 0
VIDE == 1
PLEIN == 2
C == 5
nmax == 10

topk == <<5, 10, 20>>
rdmconnect == <<5, 10, 10>>

\* _merge: the deficit stations, then the surplus stations, after the depot
merge_types(nv, np) == [i \in 1..(nv + np) |-> IF i <= nv THEN VIDE ELSE PLEIN]

\* positions of the stations 1..n on a line, the distance matrix being the
\* distance along it: in the order of their ids, or scattered
Layouts(n) == {[i \in 1..n |-> i], [i \in 1..n |-> (5 * (i - 1)) % 13]}

\* candidates.sort(key=dist_mat[i, j]) of a list held in the order of the
\* nodes: the rank of j, the sort being stable; within one list the
\* same-type penalty is the same for every candidate
SortRank(pos, i, j, candidates) ==
    Cardinality({k \in candidates :
                    \/ Abs(pos[i] - pos[k]) < Abs(pos[i] - pos[j])
                    \/ (Abs(pos[i] - pos[k]) = Abs(pos[i] - pos[j]) /\ k < j)})

\* rdmconnect_i of every list of keys <<i, same type or not>>: the arcs
\* towards the sampled candidates of remaining = candidates[topk_val:] with
\* nj <= rdmconnect[m], for every outcome of random.sample
RECURSIVE RdmArcs(_, _, _, _)
RdmArcs(m, types, pos, keys) ==
    IF keys = {} THEN {{}}
    ELSE LET key == CHOOSE k \in keys : TRUE
             candidates == {j \in 1..Len(types) : (types[j] = types[key[1]]) = key[2]}
             remaining == {j \in candidates :
                              SortRank(pos, key[1], j, candidates) >= topk[Len(topk)]}
             size == Min2(Cardinality(remaining), rdmconnect[Len(rdmconnect)])
             samples == {q \in [1..size -> remaining] :
                            \A a, b \in 1..size : a # b => q[a] # q[b]}
         IN  {rest \cup {<<key[1], q[nj + 1]>> :
                            nj \in {k \in 0..(Len(q) - 1) : k <= rdmconnect[m + 1]}} :
                 rest \in RdmArcs(m, types, pos, keys \ {key}), q \in samples}

\* _build_r_variables: the keys (i, j) at which x[m][i, j, n] is a variable
\* and not the constant 0, the same on every day: the arcs of the depot, the
\* arcs towards the topk[-1] nearest candidates of each list with
\* nj <= topk[m], and the sampled ones; one set per outcome of the samples
r_variables(m, types, pos) ==
    LET nodes == 0..Len(types)
        depot == {a \in nodes \X nodes : a[1] = DEPOT \/ a[2] = DEPOT}
        nearest == {a \in (1..Len(types)) \X (1..Len(types)) :
                      LET nj == SortRank(pos, a[1], a[2],
                                         {j \in 1..Len(types) :
                                             (types[j] = types[a[1]]) = (types[a[2]] = types[a[1]])})
                      IN  nj < topk[Len(topk)] /\ nj <= topk[m + 1]}
    IN  {depot \cup nearest \cup rdm :
            rdm \in RdmArcs(m, types, pos, (1..Len(types)) \X BOOLEAN)}

\* variant with one more visit required at the depot
DepotDin_Extra == (C + 1) * Den

\* variant with one visit fewer required at the depot
DepotDin_Less == (C - 1) * Den

\* _merge: din[0, n] = self.C
DepotDin == C * Den

\* sum of x[i, j, n] over j and of x[j, i, n] over j
OutDeg(xs, i) == Cardinality({a \in xs : a[1] = i})
InDeg(xs, i) == Cardinality({a \in xs : a[2] = i})

\* variant without flow conservation
flow_Dropped(xs, i) == TRUE

\* flow_i_n
flow(xs, i) == OutDeg(xs, i) = InDeg(xs, i)

\* variant of visit_i_n with <= in place of ==
visit_AtMost(xs, d, i) == OutDeg(xs, i) * Den <= d[i]

\* visit_i_n
visit(xs, d, i) == OutDeg(xs, i) * Den = d[i]

\* variant of the right-hand side of cons_flow without the visit term
FlowDemand_None(types, d, i, t) == 0

\* right-hand side of cons_flow_vide / cons_flow_plein: din[i, n] * is_type
FlowDemand(types, d, i, t) == IF types[i] = t THEN d[i] ELSE 0

\* the selected arcs on which a flow can help a station: a loop arc cancels in
\* incoming - outgoing, and the depot, which has no cons_flow row, supplies
\* any amount, so that an arc entering it brings nothing
FlowArcs(xs) == {a \in xs : a[1] # a[2] /\ a[2] # DEPOT}

\* the pairs <<u, v>> along which the flow f can still be raised towards v:
\* an arc below its bound f <= M * x, or an arc v -> u whose flow can be lowered
Residual(A, f, M) ==
    {a \in A : f[a] < M} \cup {<<a[2], a[1]>> : a \in {b \in A : f[b] > 0}}

\* a shortest path of res from the depot to a node of targets, <<>> without
\* one; paths holds a path to every node reached last
RECURSIVE AugPath(_, _, _, _)
AugPath(res, paths, seen, targets) ==
    IF \E v \in DOMAIN paths : v \in targets
    THEN paths[CHOOSE v \in DOMAIN paths : v \in targets]
    ELSE LET next == {b[2] : b \in {c \in res : c[1] \in DOMAIN paths}} \ seen
         IN  IF next = {} THEN <<>>
             ELSE AugPath(res,
                          [v \in next |->
                             LET u == CHOOSE u \in DOMAIN paths : <<u, v>> \in res
                             IN  Append(paths[u], v)],
                          seen \cup next, targets)

\* by how much the flow from u to v can be raised
Room(A, f, M, u, v) ==
    IF <<u, v>> \in A /\ f[<<u, v>>] < M THEN M - f[<<u, v>>] ELSE f[<<v, u>>]

\* the flow f raised by delta along the path p
Push(A, f, M, p, delta) ==
    LET steps == {<<p[k], p[k + 1]>> : k \in 1..(Len(p) - 1)}
    IN  [a \in A |->
           IF a \in steps /\ f[a] < M THEN f[a] + delta
           ELSE IF <<a[2], a[1]>> \in steps
                   /\ ~(<<a[2], a[1]>> \in A /\ f[<<a[2], a[1]>>] < M)
                THEN f[a] - delta
                ELSE f[a]]

\* the requirements left unserved by a largest flow: rem[i] is what station i
\* still lacks in incoming - outgoing
RECURSIVE Unserved(_, _, _, _)
Unserved(A, f, M, rem) ==
    LET p == AugPath(Residual(A, f, M), (DEPOT :> <<DEPOT>>), {DEPOT},
                     {i \in DOMAIN rem : rem[i] > 0})
    IN  IF p = <<>> THEN rem
        ELSE LET t == p[Len(p)]
                 rooms == {Room(A, f, M, p[k], p[k + 1]) : k \in 1..(Len(p) - 1)}
                            \cup {rem[t]}
                 delta == CHOOSE m \in rooms : \A r \in rooms : m <= r
             IN  Unserved(A, Push(A, f, M, p, delta), M, [rem EXCEPT ![t] = @ - delta])

\* variant without the commodity flows
cons_flow_Skipped(xs, types, d, t) == TRUE

\* _build_r_flow for commodity t: some flows f in [0, nmax] on the selected
\* arcs, 0 on the others, satisfy incoming - outgoing >= din * is_type at every
\* station: a largest flow from the depot serves every requirement
cons_flow(xs, types, d, t) ==
    LET A == FlowArcs(xs)
        rem == Unserved(A, [a \in A |-> 0], nmax * Den,
                        [i \in 1..Len(types) |-> FlowDemand(types, d, i, t)])
    IN  \A i \in 1..Len(types) : rem[i] = 0

\* day_limit_inj of the inherited Weekplan constraints, for both sens
RtDayLimit(types, d, nin) ==
    \A t \in {VIDE, PLEIN} :
        SumOver(d, {i \in 1..Len(types) : types[i] = t}) <= nin * Den

\* all the constraints of one day
DayConstraints(types, nin, s) ==
    /\ \A i \in 0..Len(types) : flow(s.x, i) /\ visit(s.x, s.din, i)
    /\ cons_flow(s.x, types, s.din, VIDE)
    /\ cons_flow(s.x, types, s.din, PLEIN)
    /\ RtDayLimit(types, s.din, nin)

\* the values of din[i, n] and of row i of x searched for node i, given the
\* rows of the nodes before it: din[0, n] is C, dinj is continuous in [0, 1],
\* x[i, j, n] is 0 where it is no variable, and no node may be entered more
\* often than the upper bound of its din
RowOptions(types, i, part, xv) ==
    {o \in (IF i = DEPOT THEN {DepotDin} ELSE 0..Den)
              \X SUBSET {j \in 0..Len(types) : <<i, j>> \in xv} :
        LET xs == part.x \cup {<<i, j>> : j \in o[2]}
            d == part.din @@ (i :> o[1])
        IN  /\ visit(xs, d, i)
            /\ \A j \in 0..Len(types) :
                  InDeg(xs, j) * Den <= (IF j = DEPOT THEN DepotDin ELSE Den)}

RECURSIVE Extend(_, _, _, _)
Extend(types, i, part, xv) ==
    IF i > Len(types) THEN {part}
    ELSE UNION {Extend(types, i + 1,
                       [din |-> part.din @@ (i :> o[1]),
                        x |-> part.x \cup {<<i, j>> : j \in o[2]}], xv) :
                o \in RowOptions(types, i, part, xv)}

\* the feasible assignments of one day on the arc variables xv
DaySolutions(types, nin, xv) ==
    {s \in Extend(types, 0, [din |-> <<>>, x |-> {}], xv) : DayConstraints(types, nin, s)}

-----------------------------------------------------------------------------
(* Routing stage as a state machine: TruckRoutes(dims, params), solve       *)

\* the instances: numbers of deficit and surplus stations, days, day limit
RtShapes ==
    {[nv |-> 2, np |-> 0, days |-> 1, nin |-> nin_limit_default],
     [nv |-> 1, np |-> 1, days |-> 2, nin |-> nin_limit_default],
     [nv |-> 4, np |-> 0, days |-> 2, nin |-> nin_limit_default],
     [nv |-> 3, np |-> 2, days |-> 2, nin |-> 2],
     [nv |-> 3, np |-> 2, days |-> 2, nin |-> nin_limit_default],
     [nv |-> 5, np |-> 0, days |-> 2, nin |-> 4],
     [nv |-> 5, np |-> 0, days |-> 1, nin |-> 3],
     [nv |-> 3, np |-> 3, days |-> 1, nin |-> nin_limit_default]}

RtInit ==
    /\ FrIdle /\ SimIdle /\ WpIdle /\ StIdle /\ PlIdle /\ LnIdle
    /\ rt_pc = "built"
    /\ \E sh \in RtShapes :
          /\ rt_type = merge_types(sh.nv, sh.np)
          /\ rt_N = sh.days
          /\ rt_Nin = sh.nin
          /\ \E m \in 0..(Len(topk) - 1) : \E pos \in Layouts(sh.nv + sh.np) :
                x_vars \in r_variables(m, rt_type, pos)
    /\ din = <<>>
    /\ x_sel = <<>>

\* TruckRoutes.solve: optimize, finition, finition_paires, extraction.  The
\* solution held at the end is any feasible one.  On a one-day horizon
\* finition freezes no variable and random.sample(self.N, 2) raises, with or
\* without a solution; on a longer one finition reads var.X of the other
\* days, which fails when the solver holds no solution
solve ==
    /\ rt_pc = "built"
    /\ LET sols == DaySolutions(rt_type, rt_Nin, x_vars)
       IN  IF sols = {}
           THEN /\ rt_pc' = IF rt_N < 2 THEN "ValueError" ELSE "infeasible"
                /\ UNCHANGED <<din, x_sel>>
           ELSE /\ \E sol \in [1..rt_N -> sols] :
                      /\ din' = [n \in 1..rt_N |-> sol[n].din]
                      /\ x_sel' = [n \in 1..rt_N |-> sol[n].x]
                /\ rt_pc' = IF rt_N < 2 THEN "ValueError" ELSE "returned"
    /\ UNCHANGED <<rt_type, rt_N, rt_Nin, x_vars>>
    /\ UNCHANGED notRt

RtNext == solve

-----------------------------------------------------------------------------
(* TruckRoutes.solve after its first optimize(): the per-day rounds of      *)
(* finition, its closing optimize(), the rounds of finition_paires and the  *)
(* extraction.  The bounds of the arc variables are held per day.           *)

n_pairs == 5

\* bounds of the arc variables of one day: LB, UB = 0, 1
Free == [fixed |-> FALSE, x |-> {}]

\* var.LB = var.X and var.UB = var.X for the arc variables of one day
Fixed(xs) == [fixed |-> TRUE, x |-> xs]

\* variant: no day is frozen
frozen_days_None(focus, N) == {}

\* the days whose arc variables a round freezes: n != n_focus, n not in pair_days
frozen_days(focus, N) == (1..N) \ focus

\* the bounds set by the loop over self.x[m] at the start of a round
round_bounds(focus, N, xs) ==
    [d \in 1..N |-> IF d \in frozen_days(focus, N) THEN Fixed(xs[d]) ELSE Free]

\* the solutions optimize() may end with under the bounds b
reoptimized(sols, N, b) ==
    {s \in [1..N -> sols] : \A d \in 1..N : b[d].fixed => s[d].x = b[d].x}

\* for var in frozen_vars: var.LB, var.UB = 0, 1
restored(b) == [d \in DOMAIN b |-> IF b[d].fixed THEN Free ELSE b[d]]

FnInit ==
    /\ FrIdle /\ SimIdle /\ WpIdle /\ StIdle /\ PlIdle
    /\ rt_pc = "finition"
    /\ rt_type = merge_types(5, 0)
    /\ rt_Nin = 4
    /\ rt_N \in {1, 2, 3}
    /\ \E pos \in Layouts(Len(rt_type)) : x_vars \in r_variables(0, rt_type, pos)
    /\ day_sols = DaySolutions(rt_type, rt_Nin, x_vars)
    /\ \E s \in [1..rt_N -> day_sols] :
          /\ din = [n \in 1..rt_N |-> s[n].din]
          /\ x_sel = [n \in 1..rt_N |-> s[n].x]
    /\ arc_bounds = [d \in 1..rt_N |-> Free]
    /\ x_before = x_sel
    /\ n_focus = 1
    /\ it = 0

\* finition, start of the round of n_focus: the other days are frozen at var.X
finition_freeze ==
    /\ rt_pc = "finition"
    /\ arc_bounds' = round_bounds({n_focus}, rt_N, x_sel)
    /\ x_before' = x_sel
    /\ rt_pc' = "frozen"
    /\ UNCHANGED <<rt_type, rt_N, rt_Nin, x_vars, din, x_sel, day_sols, n_focus, it>>
    /\ UNCHANGED notLn

\* finition, rest of the round: optimize(), then the frozen bounds are reset
finition_reoptimize ==
    /\ rt_pc = "frozen"
    /\ \E s \in reoptimized(day_sols, rt_N, arc_bounds) :
          /\ din' = [n \in 1..rt_N |-> s[n].din]
          /\ x_sel' = [n \in 1..rt_N |-> s[n].x]
    /\ arc_bounds' = restored(arc_bounds)
    /\ n_focus' = n_focus + 1
    /\ rt_pc' = IF n_focus < rt_N THEN "finition" ELSE "finition_last"
    /\ UNCHANGED <<rt_type, rt_N, rt_Nin, x_vars, day_sols, x_before, it>>
    /\ UNCHANGED notLn

\* finition: self.model[m].optimize() after the rounds
finition_last_optimize ==
    /\ rt_pc = "finition_last"
    /\ \E s \in reoptimized(day_sols, rt_N, arc_bounds) :
          /\ din' = [n \in 1..rt_N |-> s[n].din]
          /\ x_sel' = [n \in 1..rt_N |-> s[n].x]
          /\ x_before' = x_sel'
    /\ rt_pc' = "paires"
    /\ UNCHANGED <<rt_type, rt_N, rt_Nin, x_vars, day_sols, arc_bounds, n_focus, it>>
    /\ UNCHANGED notLn

\* one round of finition_paires: random.sample(self.N, 2) raises ValueError on
\* a horizon of one day; else the other days are frozen, optimize(), reset
finition_paires_round ==
    /\ rt_pc = "paires"
    /\ it < n_pairs
    /\ IF rt_N < 2
       THEN /\ rt_pc' = "ValueError"
            /\ UNCHANGED <<din, x_sel, x_before, arc_bounds, it>>
       ELSE \E pair_days \in {p \in SUBSET (1..rt_N) : Cardinality(p) = 2} :
              LET b == round_bounds(pair_days, rt_N, x_sel)
              IN  /\ \E s \in reoptimized(day_sols, rt_N, b) :
                        /\ din' = [n \in 1..rt_N |-> s[n].din]
                        /\ x_sel' = [n \in 1..rt_N |-> s[n].x]
                        /\ x_before' = x_sel'
                  /\ arc_bounds' = restored(b)
                  /\ it' = it + 1
                  /\ rt_pc' = "paires"
    /\ UNCHANGED <<rt_type, rt_N, rt_Nin, x_vars, day_sols, n_focus>>
    /\ UNCHANGED notLn

\* self.arcs_dict[m] = {...}; return self.model[m].Status
extraction ==
    /\ rt_pc = "paires"
    /\ it = n_pairs
    /\ rt_pc' = "returned"
    /\ UNCHANGED <<rt_type, rt_N, rt_Nin, x_vars, din, x_sel, day_sols, arc_bounds, x_before,
                   n_focus, it>>
    /\ UNCHANGED notLn

FnNext ==
    \/ finition_freeze
    \/ finition_reoptimize
    \/ finition_last_optimize
    \/ finition_paires_round
    \/ extraction

-----------------------------------------------------------------------------
(* The routing constraints on one given assignment of one day: a long tour  *)
(* through deficit stations then surplus stations, and one-station tours    *)

MaxPerType == 11
SingleTours == 3

\* depot -> first -> ... -> last -> depot
TourArcs(stops) ==
    IF stops = <<>> THEN {}
    ELSE {<<DEPOT, stops[1]>>, <<stops[Len(stops)], DEPOT>>}
           \cup {<<stops[k], stops[k + 1]>> : k \in 1..(Len(stops) - 1)}

\* the assignment: the long tour visits a deficit stations then b surplus
\* stations, SingleTours further deficit stations have a tour each, and the
\* depot's loop arc x[0, 0, n] brings its out-degree to din[0, n]
TourAssignment(a, b) ==
    LET long == [k \in 1..(a + b) |-> IF k <= a THEN k ELSE k + SingleTours]
        singles == UNION {TourArcs(<<a + k>>) : k \in 1..SingleTours}
    IN  [din |-> [i \in 0..(a + b + SingleTours) |-> IF i = DEPOT THEN DepotDin ELSE Den],
         x |-> TourArcs(long) \cup singles
                 \cup {<<DEPOT, DEPOT>> : k \in 1..(C - 1 - SingleTours)}]

TrInit ==
    /\ FrIdle /\ SimIdle /\ WpIdle /\ StIdle /\ PlIdle /\ LnIdle
    /\ rt_pc = "assigned"
    /\ rt_N = 1
    /\ rt_Nin = nin_limit_default
    /\ \E a \in 0..MaxPerType : \E b \in 0..MaxPerType :
          /\ a + b >= 1
          /\ rt_type = merge_types(a + SingleTours, b)
          /\ \E m \in 0..(Len(topk) - 1) :
             \E pos \in Layouts(a + SingleTours + b) :
                x_vars \in r_variables(m, rt_type, pos)
          /\ din = <<TourAssignment(a, b).din>>
          /\ x_sel = <<TourAssignment(a, b).x>>

\* the assignment is a solution of the model exactly when every arc it uses
\* is a variable and it satisfies the constraints of _build_r_constraints,
\* _build_r_flow and the day limit
assignment_feasible ==
    /\ rt_pc = "assigned"
    /\ rt_pc' = IF /\ x_sel[1] \subseteq x_vars
                   /\ DayConstraints(rt_type, rt_Nin, [din |-> din[1], x |-> x_sel[1]])
                THEN "feasible" ELSE "rejected"
    /\ UNCHANGED <<rt_type, rt_N, rt_Nin, x_vars, din, x_sel>>
    /\ UNCHANGED notRt

TrNext == assignment_feasible

-----------------------------------------------------------------------------
(* One call of a pattern parser: parse_bits (frontiers.py) or               *)
(* parse_frontiers_logic (optimization.py) on a cell holding one pattern    *)

MaxPatternLen == 3

\* characters a pattern string is made of here: binary digits, another digit,
\* a letter
PatternChars == {"0", "1", "2", "x"}

\* "[" + body + "]" for every body of at most MaxPatternLen characters
PatternStrings ==
    UNION {{<<"[">> \o body \o <<"]">> : body \in [1..n -> PatternChars]} :
             n \in 0..MaxPatternLen}

\* int(c) raises ValueError on a character that is not a decimal digit
IntRaises(s) ==
    \E k \in 1..Len(Strip(s)) :
        Strip(s)[k] \notin {"0", "1", "2", "3", "4", "5", "6", "7", "8", "9"}

PaInit ==
    /\ FrIdle /\ SimIdle /\ WpIdle /\ RtIdle /\ PlIdle /\ LnIdle
    /\ st_pc = "parse"
    /\ st_args \in [parser : {"parse_bits", "parse_frontiers_logic"},
                    s : PatternStrings, mini_sample : BOOLEAN,
                    horizon : 1..MaxPatternLen]
    /\ st_ret = <<>>

\* tuple(map(int, s.strip("[]")))
parse_bits_call ==
    /\ st_pc = "parse"
    /\ st_args.parser = "parse_bits"
    /\ st_ret' = IF IntRaises(st_args.s)
                 THEN [error |-> "ValueError", value |-> {}]
                 ELSE [error |-> "none", value |-> {parse_bits(st_args.s)}]
    /\ st_pc' = "parsed"
    /\ UNCHANGED st_args
    /\ UNCHANGED notSt

\* [list(map(int, x.strip("[]")))[:limit] for x in raw_list], raw_list = [s]
parse_frontiers_logic_call ==
    /\ st_pc = "parse"
    /\ st_args.parser = "parse_frontiers_logic"
    /\ st_ret' = IF IntRaises(st_args.s)
                 THEN [error |-> "ValueError", value |-> {}]
                 ELSE [error |-> "none",
                       value |-> parse_frontiers_logic({st_args.s}, st_args.mini_sample)]
    /\ st_pc' = "parsed"
    /\ UNCHANGED st_args
    /\ UNCHANGED notSt

PaNext == parse_bits_call \/ parse_frontiers_logic_call

-----------------------------------------------------------------------------
(* main.py : run_pipeline, and optimization.py : run_optimization.  A stage *)
(* returns or raises; a solve ends with one of the solver's answers.        *)

n_truck_models_default == 3

\* answers of Model.optimize(): an optimum, an incumbent at the time limit, no
\* solution, or the error "Model too large for size-limited license"
SolveStatus == {"optimal", "time_limit", "infeasible", "size_exceeded"}

\* Weekplan.solve returns model.status; only the solver's own error leaves it
WeekplanSolveError(status) ==
    IF status = "size_exceeded" THEN "GurobiError_size" ELSE "none"

\* TruckRoutes.solve: optimize() raises the size error; on a one-day horizon
\* finition reads no var.X and finition_paires raises ValueError from
\* random.sample(self.N, 2); on a longer one finition reads var.X, which
\* raises when the solver holds no solution
TruckRoutesSolveError(status, one_day) ==
    CASE status = "size_exceeded" -> "GurobiError_size"
      [] one_day -> "ValueError"
      [] status = "infeasible" -> "no_solution"
      [] OTHER -> "none"

\* frontiers_strategies.csv as load_optimization_data may read it: a deficit
\* station with patterns of one day, or of two, a surplus station alone with
\* patterns of two days, or of seven
PlTables ==
    {FrontierTable(1, <<SignVide>>, <<{1}>>),
     FrontierTable(2, <<SignVide>>, <<{1, 2}>>),
     FrontierTable(2, <<SignPlein>>, <<{1, 2}>>),
     FrontierTable(7, <<SignPlein>>, <<{1, 64}>>)}

\* len(dims["N"]) of prepare_optimization_params on the table
dims_N(table, mini) == prepare_n_days(prepare_strategies(table, mini), mini)

\* the frontier table read and the answers the solver will give: to
\* wp.solve() and routs.solve(0) of the full attempt, to those of the
\* mini-sample attempt, to routs.solve(m), m >= 1
SolverAnswers ==
    [table : PlTables,
     wp_full : {"optimal", "size_exceeded"}, r0_full : SolveStatus,
     wp_mini : {"optimal", "size_exceeded"}, r0_mini : SolveStatus,
     ladder : [1..(n_truck_models_default - 1) -> SolveStatus]]

\* one performed solve: wp.solve() or routs.solve(m)
SolveCall(mini, obj, m, status) ==
    [mini_sample |-> mini, obj |-> obj, id_model |-> m, status |-> status]

\* wp = Weekplan(...); wp.solve(); routs = TruckRoutes(...); routs.solve(0):
\* the constructor raises IndexError before any solve when a pattern is
\* shorter than the horizon
attempt(mini, wp_status, r0_status, table) ==
    IF BuildRaises(prepare_strategies(table, mini), dims_N(table, mini))
    THEN [calls |-> <<>>, error |-> "IndexError"]
    ELSE IF WeekplanSolveError(wp_status) # "none"
    THEN [calls |-> <<SolveCall(mini, "wp", 0, wp_status)>>,
          error |-> WeekplanSolveError(wp_status)]
    ELSE [calls |-> <<SolveCall(mini, "wp", 0, wp_status),
                      SolveCall(mini, "routs", 0, r0_status)>>,
          error |-> TruckRoutesSolveError(r0_status, dims_N(table, mini) = 1)]

\* for m in range(1, n_models): routs.solve(m), stopped by the first error
remaining_models(n_models, o) ==
    LET failing == {m \in 1..(n_models - 1) :
                       TruckRoutesSolveError(o.ladder[m], dims_N(o.table, FALSE) = 1) # "none"}
        last == IF failing = {} THEN n_models - 1
                ELSE CHOOSE m \in failing : \A k \in failing : m <= k
    IN  [calls |-> [m \in 1..last |-> SolveCall(FALSE, "routs", m, o.ladder[m])],
         error |-> IF failing = {} THEN "none"
                   ELSE TruckRoutesSolveError(o.ladder[last], dims_N(o.table, FALSE) = 1)]

\* routs.to_csv is Weekplan.to_csv, which raises after building its rows
routs_to_csv(solve_error) == IF solve_error = "none" THEN "NameError" ELSE solve_error

\* run_optimization: the solves performed, the final mini_sample flag, the
\* error that leaves the function ("none" when it returns) and the id_model
\* handed to routs.to_csv (-1 when to_csv is not reached)
run_optimization(csv, n_models_cfg, o) ==
    IF csv = "absent"
    THEN [calls |-> <<>>, mini_sample |-> FALSE, error |-> "FileNotFoundError", id_model |-> -1]
    ELSE LET full == attempt(FALSE, o.wp_full, o.r0_full, o.table)
         IN  IF full.error = "none"
             THEN LET rest == remaining_models(n_models_cfg, o)
                  IN  [calls |-> full.calls \o rest.calls, mini_sample |-> FALSE,
                       error |-> routs_to_csv(rest.error),
                       id_model |-> IF rest.error = "none" THEN n_models_cfg - 1 ELSE -1]
             ELSE IF full.error = "GurobiError_size"
             THEN LET mini == attempt(TRUE, o.wp_mini, o.r0_mini, o.table)
                  IN  [calls |-> full.calls \o mini.calls, mini_sample |-> TRUE,
                       error |-> routs_to_csv(mini.error),
                       id_model |-> IF mini.error = "none" THEN 0 ELSE -1]
             ELSE [calls |-> full.calls, mini_sample |-> FALSE,
                   error |-> full.error, id_model |-> -1]

\* variant: reconstruction runs whatever the flag
next_after_processing_Always(flag) == "reconstruction"

\* if config["process_last_week"]: run_reconstruction(config)
next_after_processing(flag) == IF flag THEN "reconstruction" ELSE "evaluation"

PlInit ==
    /\ FrIdle /\ SimIdle /\ WpIdle /\ RtIdle /\ StIdle /\ LnIdle
    /\ pl_pc = "processing"
    /\ process_last_week \in BOOLEAN
    /\ n_truck_models \in 1..n_truck_models_default
    /\ frontiers_csv \in {"absent", "stale"}
    /\ stage_log = <<>>
    /\ frontiers_ret = "not_run"
    /\ opt = [calls |-> <<>>, mini_sample |-> FALSE, error |-> "not_run", id_model |-> -1]
    /\ exit_status = "running"

\* a stage call inside the try block: it returns and the next one is reached,
\* or it raises and the except clause calls sys.exit(1)
StageEnds(stage, raised, next) ==
    /\ stage_log' = Append(stage_log, [stage |-> stage, raised |-> raised])
    /\ IF raised
       THEN pl_pc' = "exited" /\ exit_status' = "1"
       ELSE /\ pl_pc' = next
            /\ exit_status' = IF next = "success" THEN "0" ELSE exit_status

pipeline_run_processing ==
    /\ pl_pc = "processing"
    /\ \E raised \in BOOLEAN :
          StageEnds("processing", raised, next_after_processing(process_last_week))
    /\ UNCHANGED <<process_last_week, n_truck_models, frontiers_csv, frontiers_ret, opt>>
    /\ UNCHANGED notPl

pipeline_run_reconstruction ==
    /\ pl_pc = "reconstruction"
    /\ \E raised \in BOOLEAN : StageEnds("reconstruction", raised, "evaluation")
    /\ UNCHANGED <<process_last_week, n_truck_models, frontiers_csv, frontiers_ret, opt>>
    /\ UNCHANGED notPl

pipeline_run_evaluation ==
    /\ pl_pc = "evaluation"
    /\ \E raised \in BOOLEAN : StageEnds("evaluation", raised, "frontiers")
    /\ UNCHANGED <<process_last_week, n_truck_models, frontiers_csv, frontiers_ret, opt>>
    /\ UNCHANGED notPl

\* run_frontiers raises when evaluated_strategies.csv is missing, returns None
\* without writing when no good row is left, else writes the table
pipeline_run_frontiers ==
    /\ pl_pc = "frontiers"
    /\ \E ret \in {"FileNotFoundError", None, "frame"} :
          /\ frontiers_ret' = ret
          /\ frontiers_csv' = IF ret = "frame" THEN "fresh" ELSE frontiers_csv
          /\ StageEnds("frontiers", ret = "FileNotFoundError", "optimization")
    /\ UNCHANGED <<process_last_week, n_truck_models, opt>>
    /\ UNCHANGED notPl

pipeline_run_optimization ==
    /\ pl_pc = "optimization"
    /\ \E o \in SolverAnswers :
          /\ opt' = run_optimization(frontiers_csv, n_truck_models, o)
          /\ StageEnds("optimization", opt'.error # "none", "success")
    /\ UNCHANGED <<process_last_week, n_truck_models, frontiers_csv, frontiers_ret>>
    /\ UNCHANGED notPl

PlNext ==
    \/ pipeline_run_processing
    \/ pipeline_run_reconstruction
    \/ pipeline_run_evaluation
    \/ pipeline_run_frontiers
    \/ pipeline_run_optimization

-----------------------------------------------------------------------------
(* The ladder of routing variants: the arc variables leaving one station i  *)
(* on one day (_build_r_variables) and the solves of run_optimization.  An  *)
(* arc is named by the list it comes from and its rank nj in that list.     *)

\* values of var.X are held in units of 1/Tol
Tol == 1000

\* round(value) of a value in [0, 1]; round(0.5) is 0
Round(value) == IF 2 * value > Tol THEN 1 ELSE 0

\* the arcs of station i that are variables of variant m, for n_cand candidates
\* of one type: the depot arc, the nearest candidates with nj <= topk[m], the
\* sampled remaining ones with nj <= rdmconnect[m]
arc_vars(m, n_cand) ==
    LET topk_val == Min2(topk[Len(topk)], n_cand)
        n_rdm == Min2(n_cand - topk_val, rdmconnect[Len(rdmconnect)])
    IN  {<<"depot", 0>>}
          \cup {<<"topk", nj>> : nj \in {k \in 0..(topk_val - 1) : k <= topk[m + 1]}}
          \cup {<<"rdm", nj>> : nj \in {k \in 0..(n_rdm - 1) : k <= rdmconnect[m + 1]}}

\* solve(m), m >= 1: every variable of x[m] receives as Start the rounded value
\* of the same key of x[m-1], which is var.X for a variable and 0 otherwise
warm_start(m, n_cand, X) ==
    [k \in arc_vars(m, n_cand) |->
        Round(IF k \in arc_vars(m - 1, n_cand) THEN X[k] ELSE 0)]

\* the values the solver may hold for the arcs of station i: visit_i_n lets at
\* most one of them be 1, within the integrality tolerance
incumbents(m, n_cand) ==
    {[k \in arc_vars(m, n_cand) |-> IF k = sel THEN Tol - eps ELSE eps] :
        sel \in arc_vars(m, n_cand) \cup {<<"none", 0>>}, eps \in {0, 1}}

LdInit ==
    /\ FrIdle /\ SimIdle /\ WpIdle /\ RtIdle /\ PlIdle /\ LnIdle
    /\ st_pc = "ladder"
    /\ st_args \in [n_cand : {0, 4, 8, 13, 22, 27, 31},
                    n_models : 1..n_truck_models_default,
                    n_days : {1, 2}]
    /\ st_ret = [solved |-> <<>>, prev_X |-> <<>>, Start |-> <<>>, X |-> <<>>,
                 id_model |-> -1]

\* routs.solve(m) for the next m of run_optimization: warm start, then
\* optimize, finition and finition_paires; when one of them raises, solve does
\* not return, no later variant is solved and to_csv is not reached
solve_variant ==
    /\ st_pc = "ladder"
    /\ Len(st_ret.solved) < st_args.n_models
    /\ LET m == Len(st_ret.solved)
       IN  \E status \in SolveStatus : \E X \in incumbents(m, st_args.n_cand) :
              LET err == TruckRoutesSolveError(status, st_args.n_days = 1)
              IN  /\ st_pc' = IF err = "none" THEN "ladder" ELSE err
                  /\ st_ret' = [solved |-> IF err = "none"
                                           THEN Append(st_ret.solved, m)
                                           ELSE st_ret.solved,
                                prev_X |-> st_ret.X,
                                Start |-> IF m >= 1
                                          THEN warm_start(m, st_args.n_cand, st_ret.X)
                                          ELSE <<>>,
                                X |-> IF status \in {"optimal", "time_limit"}
                                      THEN X ELSE <<>>,
                                id_model |-> -1]
    /\ UNCHANGED st_args
    /\ UNCHANGED notSt

\* routs.to_csv(..., id_model=n_models-1) once the loop over the models is
\* over: Weekplan.to_csv reads the variables of that model, then raises
ladder_to_csv ==
    /\ st_pc = "ladder"
    /\ Len(st_ret.solved) = st_args.n_models
    /\ st_pc' = routs_to_csv("none")
    /\ st_ret' = [st_ret EXCEPT !.id_model = st_args.n_models - 1]
    /\ UNCHANGED st_args
    /\ UNCHANGED notSt

LdNext == solve_variant \/ ladder_to_csv

-----------------------------------------------------------------------------
(* Specifications                                                          *)

SpecFrontiers == FrInit /\ [][FrNext]_vars

SpecSimulate == SimInit /\ [][SimNext]_vars
SpecStabilize == StInit /\ [][StNext]_vars
SpecParsers == PaInit /\ [][PaNext]_vars
SpecWeekplan == WpInit /\ [][WpNext]_vars
SpecRoutes == RtInit /\ [][RtNext]_vars
SpecTours == TrInit /\ [][TrNext]_vars
SpecFinition == FnInit /\ [][FnNext]_vars
SpecLadder == LdInit /\ [][LdNext]_vars
SpecPipeline == PlInit /\ [][PlNext]_vars

-----------------------------------------------------------------------------
(* Claims on the frontier stage                                            *)

\* pointwise dominance of two pattern strings of equal length
PointwiseLeq(s, t) ==
    LET a == parse_bits(s)
        b == parse_bits(t)
    IN  Len(a) = Len(b) /\ \A k \in 1..Len(a) : a[k] <= b[k]

IsAntichain(S) == \A s, t \in S : s # t => ~PointwiseLeq(s, t)

FrReturned == fr_pc = "returned_frame"

\* the good patterns of group g, read from the evaluated table
GoodPatterns(g) ==
    {r.strategy_bits :
       r \in {q \in evaluated : q.station = g[1] /\ q.sign = g[2] /\ q.applyable
                                /\ q.max_ratio >= c_vide /\ q.min_ratio <= c_plein}}

MinimalOf(G) == {s \in G : ~\E t \in G : t # s /\ PointwiseLeq(t, s)}
MaximalOf(G) == {s \in G : ~\E t \in G : t # s /\ PointwiseLeq(s, t)}

\* C7: for every (station, sign) group of the returned table, frontier-low is
\* an antichain under pointwise dominance, and so is frontier-high.
C7_FrontiersAreAntichains ==
    FrReturned =>
        \A g \in DOMAIN frontiers :
            /\ IsAntichain(frontiers[g].frontiere_bas)
            /\ IsAntichain(frontiers[g].frontiere_haut)

\* a returned group with two incomparable minimal patterns and a dominated one left out
C7_Witness ==
    /\ FrReturned
    /\ \E g \in DOMAIN frontiers :
          /\ Cardinality(frontiers[g].frontiere_bas) >= 2
          /\ frontiers[g].frontiere_bas # GoodPatterns(g)

\* C8: for every group of the returned table, frontier-low is exactly the set
\* of minimal and frontier-high exactly the set of maximal good patterns of the
\* group, with INF and SUP computed once over the patterns of all groups.
C8_FrontiersAreExtremalSets ==
    FrReturned =>
        \A g \in DOMAIN frontiers :
            /\ frontiers[g].frontiere_bas = MinimalOf(GoodPatterns(g))
            /\ frontiers[g].frontiere_haut = MaximalOf(GoodPatterns(g))

\* a frontier-low member dominated from below by a pattern that is good only in
\* another group, while its own group also has a dominated pattern
C8_Witness ==
    /\ FrReturned
    /\ \E g \in DOMAIN frontiers :
          /\ \E s \in frontiers[g].frontiere_bas : INF[s] \ GoodPatterns(g) # {}
          /\ frontiers[g].frontiere_bas # GoodPatterns(g)

\* C9: the relation of build_partial_orders is antisymmetric and transitive,
\* and SUP is its converse.
C9_PartialOrder ==
    FrReturned =>
        /\ \A s, t \in DOMAIN INF : ~(t \in INF[s] /\ s \in INF[t])
        /\ \A s, t, u \in DOMAIN INF : (t \in INF[s] /\ u \in INF[t]) => u \in INF[s]
        /\ \A s, t \in DOMAIN INF : t \in SUP[s] <=> s \in INF[t]

\* a chain of three patterns and a pair of incomparable patterns
C9_Witness ==
    /\ FrReturned
    /\ \E s, t, u \in DOMAIN INF : t \in INF[s] /\ u \in INF[t]

\* the pattern of strategy index 0 on the evaluated horizon
NullPattern == StrategyBitsColumn[n_futur_day][idx_null_strat]

\* C26: a station is in the returned frontier table only if its all-zero
\* pattern is good for neither sign; no frontier-low or frontier-high list
\* contains the all-zero pattern, and every frontier-low member schedules at
\* least one visit.
C26_AutopassStationsAreDropped ==
    FrReturned =>
        \A g \in DOMAIN frontiers :
            /\ \A sg \in Signs : NullPattern \notin GoodPatterns(<<g[1], sg>>)
            /\ NullPattern \notin frontiers[g].frontiere_bas
            /\ NullPattern \notin frontiers[g].frontiere_haut
            /\ \A s \in frontiers[g].frontiere_bas :
                   \E k \in 1..Len(parse_bits(s)) : parse_bits(s)[k] = 1

\* a table returned without a station whose all-zero pattern is good for one
\* sign and which has another good pattern for the other sign only
C26_Witness ==
    /\ FrReturned
    /\ \E st \in Stations : \E sg \in Signs :
          /\ \A g \in DOMAIN frontiers : g[1] # st
          /\ NullPattern \in GoodPatterns(<<st, sg>>)
          /\ NullPattern \notin GoodPatterns(<<st, -sg>>)
          /\ GoodPatterns(<<st, -sg>>) # {}

-----------------------------------------------------------------------------
(* Claims on the stock simulator                                           *)

\* x_cur holds a value that _simulate stored in the returned trajectory
SimStored == sim_pc \in {"step", "done"} \/ (sim_pc = "day" /\ d_idx > 0)

\* C11 as stated: with zero demand and the all-zero pattern every stored value
\* equals the initial stock, for every initial stock in [0, capacity] and
\* every historical reference.
C11_ZeroInputKeepsStock ==
    (SimStored /\ zero_input /\ 0 <= start /\ start <= cap) => x_cur = start

\* the stabilization of a step leaves a stock x alone: the step is
\* reset-flagged, or the historical value r is x, or x deviates from r by more
\* than the band on the side of the tracked drift direction s
KeepsStock(x, r, s, reset) ==
    reset \/ r = x \/ (Abs(x - r) > band /\ s # 0 /\ Sign(x - r) = s)

\* C11 amended: with zero demand and the all-zero pattern, from an initial
\* stock in [0, capacity], every stored value equals the initial stock when no
\* historical reference is passed; when one is passed, the value stored after
\* one equal to the initial stock is the initial stock again if the step is
\* reset-flagged, or its historical value is the initial stock, or the initial
\* stock deviates from it by more than the band on the side of the tracked
\* drift direction, and is the historical value of the step otherwise.
C11_ZeroInputKeepsStockUnlessSnapped ==
    /\ [](  (SimStored /\ zero_input /\ 0 <= start /\ start <= cap /\ ~has_hist)
              => x_cur = start)
    /\ [][ (sim_pc \in {"day", "step"} /\ zero_input' /\ has_hist
              /\ 0 <= start /\ start <= cap /\ x_cur = start)
            => x_cur' = IF KeepsStock(start, ref', sign_ref, reset_mask')
                        THEN start ELSE ref' ]_vars

\* the whole horizon simulated with zero input and a historical reference that
\* differs from the initial stock within the band: the last step, which is
\* reset-flagged, has stored the initial stock again
C11_Witness ==
    /\ sim_pc = "done" /\ zero_input /\ has_hist
    /\ x_cur = start /\ reset_mask
    /\ ref # start /\ Abs(start - ref) <= band

\* C12: at every step, reset-flagged or not, a trajectory whose deviation
\* from the historical value is within the band gets the historical value
\* back from stabilize.
C12_InBandSnapsToHistory ==
    (st_pc = "returned" /\ Abs(st_args.x - st_args.ref) <= band)
        => st_ret[1] = st_args.ref

\* C30: after every call of stabilize, a drift direction of 0 comes with a
\* returned value equal to the historical value, and a non-zero direction
\* with a returned value that deviates from the historical value with that
\* sign, by more than the band unless the step is flagged as reset; a
\* direction that was 0 before a step not flagged as reset stays 0 and the
\* returned value is the historical value.
C30_DirectionMatchesDeviation ==
    st_pc = "returned" =>
      LET x == st_ret[1]
          s == st_ret[2]
          r == st_args.ref
      IN  /\ s = 0 => x = r
          /\ s # 0 => /\ Sign(x - r) = s
                      /\ ~st_args.reset_mask => Abs(x - r) > band
          /\ (st_args.sign_ref = 0 /\ ~st_args.reset_mask) => (x = r /\ s = 0)

\* a call on a step not flagged as reset, with a value beyond the band on the
\* side of the tracked direction: the direction is kept and the value returned
\* as it came
C30_Witness ==
    /\ st_pc = "returned"
    /\ ~st_args.reset_mask
    /\ st_ret[2] = -1
    /\ st_ret[1] = st_args.x /\ st_args.ref - st_ret[1] > band

\* C10: every value of the trajectory returned by _simulate lies in
\* [0, capacity], with or without a historical reference.
C10_TrajectoryWithinCapacity ==
    SimStored => (0 <= x_cur /\ x_cur <= cap)

\* the unclipped value lies in [-tol, capacity + tol]
WithinTolerance(test) == test >= -apply_tol /\ test <= cap + apply_tol

\* C25: a pattern's record is flagged feasible exactly when on every day the
\* unclipped value (the stock carried over from the end of the day before,
\* plus the day's regulation) lies in [-tol, capacity + tol]: the flag starts
\* true, each day's regulation keeps it only if that day's unclipped value is
\* within the tolerance, and clipping and the demand steps of the day leave
\* it as it is.
C25_FeasibleIffUnclippedWithinTolerance ==
    [][ /\ (sim_pc = "day" /\ d_idx = 0) => (applyable /\ prev = start)
        /\ (sim_pc = "day" /\ d_idx > 0) => prev = x_cur
        /\ sim_pc = "day" =>
              (applyable' <=>
                 (applyable /\ WithinTolerance(prev + day_reg'[Len(day_reg')])))
        /\ sim_pc = "step" => (applyable' <=> applyable) ]_vars

\* a record flagged feasible at the end of the horizon although its first
\* unclipped value was above the capacity and was clipped, and demand moved
\* the stock afterwards
C25_Witness ==
    /\ sim_pc = "done" /\ applyable
    /\ start + day_reg[1] > cap /\ x_cur < cap

-----------------------------------------------------------------------------
(* Claims on the visit planning stage                                       *)

\* the plan of one station against a pattern, both on the scale of Den
PlanDominates(dj_s, q, nd) == \A n \in 1..nd : dj_s[n] >= q[n] * Den
PlanDominatedBy(dj_s, q, nd) == \A n \in 1..nd : dj_s[n] <= q[n] * Den

\* C5: in every feasible solution of the Weekplan model, a station of either
\* sens whose score is 1 has a plan that is pointwise >= one of its frontier-low
\* patterns and pointwise <= one of its frontier-high patterns, whatever the
\* values of the continuous activation variables.
C5_ScoreOneImpliesBracketed ==
    WpSolved =>
      \A sens \in Sens : \A k \in 1..Len(strategies[sens]) :
         score_s[sens][k] = Den =>
           /\ \E q \in strategies[sens][k].down : PlanDominates(dinj[sens][k], q, n_days)
           /\ \E q \in strategies[sens][k].up : PlanDominatedBy(dinj[sens][k], q, n_days)

\* a feasible solution, not yet optimal, where a station with two frontier-low
\* and two frontier-high patterns has score 1
C5_Witness ==
    /\ wp_pc = "incumbent"
    /\ \E sens \in Sens : \E k \in 1..Len(strategies[sens]) :
          /\ score_s[sens][k] = Den
          /\ Cardinality(strategies[sens][k].down) >= 2
          /\ Cardinality(strategies[sens][k].up) >= 2

\* the instance of one station, three days, frontier-low {100}, frontier-high {111}
C6_Instance ==
    /\ Len(strategies["vide"]) + Len(strategies["plein"]) = 1
    /\ \A sens \in Sens : \A k \in 1..Len(strategies[sens]) :
          /\ strategies[sens][k].down = {<<1, 0, 0>>}
          /\ strategies[sens][k].up = {<<1, 1, 1>>}

\* C6: on that instance the optimum has score 1 and a plan p with
\* 100 <= p <= 111 pointwise, so day 1 is visited, and the exported row
\* reports success.
C6_OptimumOfScenario ==
    (C6_Instance /\ wp_pc \in {"optimal", "NameError"}) =>
      /\ n_days = 3
      /\ \A sens \in Sens : \A k \in 1..Len(strategies[sens]) :
            /\ score_s[sens][k] = Den
            /\ PlanDominates(dinj[sens][k], <<1, 0, 0>>, n_days)
            /\ PlanDominatedBy(dinj[sens][k], <<1, 1, 1>>, n_days)
            /\ dinj[sens][k][1] = Den
      /\ wp_pc # "optimal" =>
            /\ Cardinality(csv_rows) = 1
            /\ \A r \in csv_rows : r.succes /\ r.strategie[2] = "1"

\* C24: in every optimal solution of the Weekplan model, under the default day
\* limit (never binding here), a station with a frontier-low pattern p and a
\* frontier-high pattern q, p <= q pointwise, has score 1, whatever the number
\* of visit days of p.
C24_BracketedStationScoresOne ==
    (wp_pc \in {"optimal", "NameError"} /\ Nin = nin_limit_default) =>
      \A sens \in Sens : \A k \in 1..Len(strategies[sens]) :
         (\E p \in strategies[sens][k].down : \E q \in strategies[sens][k].up :
              \A n \in 1..n_days : p[n] <= q[n])
           => score_s[sens][k] = Den

-----------------------------------------------------------------------------
(* Claims on the routing stage                                              *)

\* the model holds a feasible solution: solve returned it, or raised after
\* the optimisation found it
RtHolds == rt_pc = "returned" \/ (rt_pc = "ValueError" /\ x_sel # <<>>)

\* the nodes reached from the set R along the arcs xs
RECURSIVE ReachSet(_, _)
ReachSet(xs, R) ==
    LET nxt == R \cup {a[2] : a \in {b \in xs : b[1] \in R}}
    IN  IF nxt = R THEN R ELSE ReachSet(xs, nxt)

\* a directed cycle of xs that avoids the depot
DepotFreeCycle(xs) ==
    LET ys == {a \in xs : a[1] # DEPOT /\ a[2] # DEPOT}
    IN  \E a \in ys : a[1] \in ReachSet(ys, {a[2]})

\* C1: in every solution returned by TruckRoutes.solve, on every day every
\* non-depot node has as many selected arcs entering it as leaving it, and
\* both numbers equal the node's visit count din[i, n] of that day.
C1_DegreesEqualVisitCount ==
    rt_pc = "returned" =>
      \A n \in 1..rt_N : \A i \in 1..Len(rt_type) :
         /\ InDeg(x_sel[n], i) = OutDeg(x_sel[n], i)
         /\ OutDeg(x_sel[n], i) * Den = din[n][i]
         /\ InDeg(x_sel[n], i) * Den = din[n][i]

\* a returned solution with an arc between two stations on one day and, on a
\* day, a visited station and a station left out
C1_Witness ==
    /\ rt_pc = "returned"
    /\ \E n \in 1..rt_N : \E a \in x_sel[n] : a[1] # DEPOT /\ a[2] # DEPOT
    /\ \E n \in 1..rt_N :
          /\ \E i \in 1..Len(rt_type) : din[n][i] = Den
          /\ \E i \in 1..Len(rt_type) : din[n][i] = 0

\* C2: in every feasible routing solution, on every day, no directed cycle of
\* selected arcs avoids the depot, and every selected arc lies on a closed
\* walk through the depot.
C2_NoDepotFreeCycle ==
    RtHolds =>
      \A n \in 1..rt_N :
         /\ ~DepotFreeCycle(x_sel[n])
         /\ \A a \in x_sel[n] :
               /\ a[1] \in ReachSet(x_sel[n], {DEPOT})
               /\ DEPOT \in ReachSet(x_sel[n], {a[2]})

\* a solution on six stations, all visited, only four of them entered from the
\* depot: the two others could form a cycle of their own and do not
C2_Witness ==
    /\ RtHolds
    /\ Len(rt_type) = 6
    /\ \E n \in 1..rt_N :
          /\ \A i \in 1..Len(rt_type) : din[n][i] = Den
          /\ Cardinality({a \in x_sel[n] : a[1] = DEPOT /\ a[2] # DEPOT}) = 4

\* C3: in every feasible routing solution, on every day, at most C selected
\* arcs leave the depot.
C3_DepotOutAtMostFleet ==
    RtHolds => \A n \in 1..rt_N : OutDeg(x_sel[n], DEPOT) <= C

\* a solution where C arcs leave the depot towards C stations
C3_Witness ==
    /\ RtHolds
    /\ \E n \in 1..rt_N :
          Cardinality({a \in x_sel[n] : a[1] = DEPOT /\ a[2] # DEPOT}) = C

\* C4: with exactly two stations the routing model is feasible, and on a day
\* where both are visited the selected arcs are exactly one closed tour
\* depot -> A -> B -> depot or depot -> B -> A -> depot.
C4_TwoStationsOneTour ==
    (Len(rt_type) = 2 /\ rt_pc # "built") =>
      /\ RtHolds
      /\ \A n \in 1..rt_N :
            (din[n][1] = Den /\ din[n][2] = Den) =>
               x_sel[n] \in {{<<DEPOT, 1>>, <<1, 2>>, <<2, DEPOT>>},
                             {<<DEPOT, 2>>, <<2, 1>>, <<1, DEPOT>>}}

\* the non-depot nodes entered directly from the depot
EnteredFromDepot(xs) == {a[2] : a \in {b \in xs : b[1] = DEPOT /\ b[2] # DEPOT}}

\* the largest number of stations the day limits allow to visit on one day
Visitable(types, nin) ==
    LET count(t) == Cardinality({i \in 1..Len(types) : types[i] = t})
    IN  Min2(count(VIDE), nin) + Min2(count(PLEIN), nin)

\* C27: in every feasible routing solution, on every day, exactly C arcs leave
\* the depot, the depot-to-depot arc included, so at least C - 1 distinct
\* non-depot nodes are entered directly from the depot, each of them visited
\* that day; an instance where fewer than C - 1 non-depot nodes can be
\* visited on a day is infeasible.
C27_DepotDegreeIsFleetSize ==
    /\ RtHolds =>
          \A n \in 1..rt_N :
             /\ OutDeg(x_sel[n], DEPOT) = C
             /\ Cardinality(EnteredFromDepot(x_sel[n])) >= C - 1
             /\ Cardinality(EnteredFromDepot(x_sel[n])) =
                   C - (IF <<DEPOT, DEPOT>> \in x_sel[n] THEN 1 ELSE 0)
             /\ \A i \in EnteredFromDepot(x_sel[n]) : din[n][i] = Den
    /\ (rt_pc # "built" /\ Visitable(rt_type, rt_Nin) < C - 1) => ~RtHolds

\* a solution of five stations under a day limit of four visits: the depot
\* loop is selected and exactly C - 1 stations are entered from the depot
C27_Witness ==
    /\ RtHolds
    /\ Visitable(rt_type, rt_Nin) = C - 1
    /\ \E n \in 1..rt_N :
          /\ <<DEPOT, DEPOT>> \in x_sel[n]
          /\ Cardinality(EnteredFromDepot(x_sel[n])) = C - 1

\* C29: no feasible routing solution selects an arc from a non-depot node to
\* itself, although that arc is a variable of the model: every visited
\* non-depot node is entered from another node and left towards another node.
C29_NoStationSelfLoop ==
    RtHolds =>
      \A n \in 1..rt_N : \A i \in 1..Len(rt_type) :
         /\ <<i, i>> \notin x_sel[n]
         /\ din[n][i] > 0 =>
               /\ \E a \in x_sel[n] : a[2] = i /\ a[1] # i
               /\ \E a \in x_sel[n] : a[1] = i /\ a[2] # i

\* a solution where a station is visited from a station of its own type
\* while another station, which degrees alone would let loop on itself, is
\* left out
C29_Witness ==
    /\ RtHolds
    /\ \E n \in 1..rt_N :
          /\ \E a \in x_sel[n] : /\ a[1] # DEPOT /\ a[2] # DEPOT
                                  /\ rt_type[a[1]] = rt_type[a[2]]
          /\ \E i \in 1..Len(rt_type) : din[n][i] = 0

\* C28: the planning-day range N that prepare_optimization_params builds has
\* the length of every frontier-low and frontier-high pattern it hands to the
\* planner, for both signs, also without a deficit station in the table and
\* in mini-sample mode.
C28_PlanningDaysMatchPatternLength ==
    \A sens \in Sens : \A k \in 1..Len(strategies[sens]) :
       \A q \in strategies[sens][k].down \cup strategies[sens][k].up :
          Len(q) = n_days

\* C13: every pattern of the visit plan, as to_csv builds it from the optimum,
\* has exactly as many binary digits as the remaining horizon of the frontier
\* table it was computed from.
C13_PlanPatternHasHorizonDigits ==
    wp_pc \in {"optimal", "NameError"} =>
      LET rows == to_csv(dinj, score_s, n_days).rows
      IN  \A j \in 1..Len(rows) :
             /\ Len(rows[j].strategie) = horizon + 2
             /\ \A k \in 2..(Len(rows[j].strategie) - 1) :
                    rows[j].strategie[k] \in {"0", "1"}

-----------------------------------------------------------------------------
(* Claims on run_pipeline and run_optimization                              *)

OptRan == opt.error # "not_run"

\* the reduced re-run was performed: some solve was made in mini-sample mode
ReducedRerun == \E j \in 1..Len(opt.calls) : opt.calls[j].mini_sample

\* C14: whenever a solve of the full attempt, the Weekplan solve or the solve of
\* any variant of the ladder, ends size-exceeded, run_optimization performs the
\* reduced re-run.
C14_SizeExceededLeadsToReducedRerun ==
    OptRan =>
      ((\E k \in 1..Len(opt.calls) :
           ~opt.calls[k].mini_sample /\ opt.calls[k].status = "size_exceeded")
         => ReducedRerun)

\* C15: the reduced re-run is performed exactly when a solve of the full attempt
\* ended size-exceeded or infeasible.
C15_FallbackIffSizeExceededOrInfeasible ==
    OptRan =>
      (ReducedRerun <=>
         \E k \in 1..Len(opt.calls) :
             /\ ~opt.calls[k].mini_sample
             /\ opt.calls[k].status \in {"size_exceeded", "infeasible"})

\* C16: after run_frontiers returned its empty result, run_optimization makes no
\* solve and returns without raising.
C16_EmptyFrontierSkipsOptimization ==
    (frontiers_ret = None /\ OptRan) => (opt.calls = <<>> /\ opt.error = "none")

\* the order of the stages for a value of process_last_week
StageOrder(flag) ==
    IF flag
    THEN <<"processing", "reconstruction", "evaluation", "frontiers", "optimization">>
    ELSE <<"processing", "evaluation", "frontiers", "optimization">>

\* C18: the stages called form a prefix of processing, reconstruction (only when
\* process_last_week is set), evaluation, frontiers, optimization, each called
\* once and only after the previous one returned; once a stage has raised no
\* further stage is called and the process ends with exit status 1.
C18_StagesInOrderAbortOnRaise ==
    LET order == StageOrder(process_last_week)
        n == Len(stage_log)
    IN  /\ n <= Len(order)
        /\ \A k \in 1..n : stage_log[k].stage = order[k]
        /\ \A k \in 1..(n - 1) : ~stage_log[k].raised
        /\ (n > 0 /\ stage_log[n].raised) <=> (pl_pc = "exited" /\ exit_status = "1")
        /\ (pl_pc = "success") <=> (n = Len(order) /\ ~stage_log[n].raised /\ exit_status = "0")

C18_Witness ==
    /\ pl_pc = "exited" /\ exit_status = "1" /\ process_last_week
    /\ Len(stage_log) = 3
    /\ stage_log[2].stage = "reconstruction" /\ ~stage_log[2].raised
    /\ stage_log[3].stage = "evaluation" /\ stage_log[3].raised

-----------------------------------------------------------------------------
(* Claims on the pattern parsers                                            *)

\* C17: a parser raises on a pattern whose length differs from the horizon or
\* that holds a character other than 0 and 1, and a pattern it returns has as
\* many digits as the string it was given.
C17_ParsersRejectMalformedPatterns ==
    st_pc = "parsed" =>
      LET body == Strip(st_args.s)
      IN  /\ (Len(body) # st_args.horizon
                \/ \E k \in 1..Len(body) : body[k] \notin {"0", "1"})
             => st_ret.error # "none"
          /\ st_ret.error = "none" => \A q \in st_ret.value : Len(q) = Len(body)

-----------------------------------------------------------------------------
(* Claims on the tours of a feasible routing assignment                     *)

\* the non-depot nodes of the tour that leaves the depot towards j
TourNodes(xs, j) == ReachSet({a \in xs : a[1] # DEPOT /\ a[2] # DEPOT}, {j})

\* C19: in every feasible routing assignment every tour, from the depot back
\* to the depot on one day, contains at most nmax non-depot nodes.
C19_TourAtMostNmaxNodes ==
    rt_pc = "feasible" =>
      \A n \in 1..rt_N : \A a \in x_sel[n] :
          (a[1] = DEPOT /\ a[2] # DEPOT) => Cardinality(TourNodes(x_sel[n], a[2])) <= nmax

-----------------------------------------------------------------------------
(* Claims on the ladder of routing variants                                 *)

\* the arcs of an assignment that carry the value 1
Selected(f) == {k \in DOMAIN f : f[k] = 1}

\* C20: the variants are solved in the order 0, 1, ..., n-1 and the table is
\* written from the last one; every arc variable of variant m is a variable of
\* variant m+1; before variant m+1 is optimised each of its variables that
\* exists in variant m has as start value the rounded value of variant m's
\* incumbent and each new one has 0, so the start values select the arcs the
\* incumbent selected, at most one per station.
C20_LadderOrderAndWarmStart ==
    st_pc \in {"ladder", "exported", "NameError"} =>
      LET solved == st_ret.solved
          m == Len(solved) - 1
          nc == st_args.n_cand
      IN  /\ \A k \in 1..Len(solved) : solved[k] = k - 1
          /\ st_pc # "ladder" =>
                /\ st_pc = "exported"
                /\ Len(solved) = st_args.n_models
                /\ st_ret.id_model = solved[Len(solved)]
          /\ m >= 1 =>
                /\ arc_vars(m - 1, nc) \subseteq arc_vars(m, nc)
                /\ DOMAIN st_ret.prev_X = arc_vars(m - 1, nc)
                /\ DOMAIN st_ret.Start = arc_vars(m, nc)
                /\ \A k \in arc_vars(m, nc) :
                      st_ret.Start[k] =
                        IF k \in arc_vars(m - 1, nc) /\ 2 * st_ret.prev_X[k] > Tol
                        THEN 1 ELSE 0
                /\ Selected(st_ret.Start)
                     = {k \in arc_vars(m - 1, nc) : st_ret.prev_X[k] >= Tol - 1}
                /\ Cardinality(Selected(st_ret.Start)) <= 1

\* C23: the arc variables of stage m from a node towards the nodes of one
\* neighbour list are at most topk[m] nearest ones plus at most rdmconnect[m]
\* sampled farther ones.
C23_ArcsWithinTopkAndRdmconnect ==
    (st_pc \in {"ladder", "NameError"} /\ Len(st_ret.solved) >= 1) =>
      LET m == Len(st_ret.solved) - 1
          created == DOMAIN st_ret.X
      IN  /\ Cardinality({k \in created : k[1] = "topk"}) <= topk[m + 1]
          /\ Cardinality({k \in created : k[1] = "rdm"}) <= rdmconnect[m + 1]

-----------------------------------------------------------------------------
(* Claims on the LNS rounds of TruckRoutes.solve                            *)

\* C21: during the per-day round of focus day n every other day is fixed at
\* its value in the incumbent that preceded the round and day n is free, so the
\* round changes the incumbent on day n only; outside a round, and when solve
\* returns, every day is free again; each round freezes at the incumbent the
\* previous round left.
C21_PerDayRoundFreezesOtherDays ==
    rt_pc \in {"finition", "frozen", "finition_last", "paires", "returned"} =>
      /\ rt_pc = "frozen" =>
            /\ x_before = x_sel
            /\ \A d \in 1..rt_N :
                  arc_bounds[d] = IF d = n_focus THEN Free ELSE Fixed(x_sel[d])
      /\ (rt_pc \in {"finition", "finition_last"} /\ n_focus > 1) =>
            \A d \in (1..rt_N) \ {n_focus - 1} : x_sel[d] = x_before[d]
      /\ rt_pc # "frozen" => \A d \in 1..rt_N : arc_bounds[d] = Free

C21_Witness ==
    /\ rt_pc = "finition" /\ rt_N = 3 /\ n_focus = 3
    /\ x_sel[2] # x_before[2]
    /\ x_sel[1] = x_before[1] /\ x_sel[3] = x_before[3]
    /\ \A d \in 1..rt_N : arc_bounds[d] = Free

\* C22: the paired-day pass never makes solve fail, whatever the horizon.
C22_PairedPassNeverFails == rt_pc # "ValueError"

=============================================================================
